---------------------------- MODULE Spec2Model ----------------------------
(***************************************************************************)
(* Gesture-driven mode controller of the particle tree.                    *)
(*                                                                         *)
(*   HandController (src/unnamed/part_000)  one detector frame per render  *)
(*       frame: fist/open, victory selection, swipe, rotate/zoom signals   *)
(*   Scene (src/components/Scene.tsx)   treeState, focusMode, rotation,    *)
(*       slideshowIndex, the 4 s slideshow interval, handleSwipe           *)
(*   App (src/constants.ts, second half)   the photo list and uploads      *)
(*   LuxuryTree (src/components/Tree.tsx)   needles, trunk, dust, photo    *)
(*       ornaments; Atmosphere (src/components/Atmosphere.tsx)   gifts,    *)
(*       balls, lights: generated once, blended every frame toward the     *)
(*       target of the committed mode                                      *)
(*                                                                         *)
(* React state is modelled as React keeps it: a setter called from a frame *)
(* callback, a timer or a DOM handler only queues an update on its hook;   *)
(* the next render processes every queue, commits the new values and then  *)
(* runs the effects whose dependencies changed.  Several callbacks may run *)
(* before that render (automatic batching).  For a hook that is only ever  *)
(* set to constants the queue is represented by its last entry, which is   *)
(* the value the render produces.                                          *)
(*                                                                         *)
(* Spec is the whole scene on a 2 s clock; GestureSpec is the classifier    *)
(* alone, with every pose and a clock fine enough for its 800 ms and 500 ms *)
(* limits.  ParticleSpec adds the particle frames under mode changes,       *)
(* LifecycleSpec the steps of init() and the unmount, SignalSpec hands at   *)
(* every place of the image, SwipeSpec the hand leaving and re-entering,    *)
(* WriterSpec particle frames beside every gesture, and ConvergeSpec the    *)
(* frame loop running for ever under a held mode.                           *)
(*                                                                         *)
(* Units: time in ms, landmark coordinates in 1/1000 of the normalised     *)
(* image, camera z and particle coordinates in 1/1000 of a world unit,     *)
(* rotation in 1/100000.                                                   *)
(***************************************************************************)
EXTENDS Integers, Sequences, FiniteSets, TLC

VARIABLES
    now,              \* Date.now()
    tracker,          \* landmarkerRef / video readiness: "loading", "model" (landmarker
                      \* created, no video yet), "ready", "failed"
    lastHandX,        \* useRef<number | null>(null)
    lastSwipeTime,    \* useRef(0)
    lastVictoryTime,  \* useRef(0)
    swipes,           \* the onSwipe calls of the latest useFrame call
    treeState,        \* committed Scene state
    focusMode,
    rotation,
    slideshowIndex,
    photos,           \* committed App state userPhotos
    cameraZ,          \* cameraRef.current.position.z
    interval,         \* the slideshow setInterval handle
    slideSince,       \* history: when the slideshow last started or advanced by timer
    pendTree,         \* queued updates, one queue per hook
    pendFocus,
    pendRot,
    pendIdx,
    pendPhotos,
    mounted,          \* the scene (and its useFrame subscriptions) exists
    camera,           \* the getUserMedia stream: "off" or "on"
    ornaments,        \* useMemo photoOrnaments of LuxuryTree: photoIndex of each
    chaos,            \* per group: scattered targets (needleData.chaos, ...)
    formed,           \* per group: formed targets
    current,          \* per group: the buffer the renderer reads
    frame,            \* passes of the render loop counted so far
    prevMode,         \* history: mode prop the previous frame blended toward
    prevFrameX        \* history, kept by SwipeSpec: landmarks[9].x of the latest
                      \* detection, NoX when it showed no hand

vars == << now, tracker, lastHandX, lastSwipeTime, lastVictoryTime, swipes,
           treeState, focusMode, rotation, slideshowIndex, photos, cameraZ,
           interval, slideSince, pendTree, pendFocus, pendRot, pendIdx, pendPhotos,
           mounted, camera, ornaments, chaos, formed, current, frame, prevMode,
           prevFrameX >>

classifierVars == << lastHandX, lastSwipeTime, lastVictoryTime >>
committedVars  == << treeState, focusMode, rotation, slideshowIndex, photos >>
pendingVars    == << pendTree, pendFocus, pendRot, pendIdx, pendPhotos >>
lifeVars       == << mounted, camera >>
targetVars     == << chaos, formed >>
particleVars   == << chaos, formed, current, frame, prevMode >>

-----------------------------------------------------------------------------
(* Bounds of the exploration *)

T0 == 1000            \* clock value at start; Date.now() is far above 800
MaxSlideTicks == 4    \* Spec: the clock runs up to T0 + MaxSlideTicks * 2000
MaxGestureSpan == 10  \* GestureSpec: the clock runs up to T0 + MaxGestureSpan * 100
MaxPhotos == 3        \* photos uploaded in one run
MaxPending == 2       \* queued slideshowIndex updaters before a render is forced
ParticleCount == 2    \* particles generated per group
MaxFrames == 4        \* ParticleSpec: render-loop frames in one run
MaxWriterFrames == 2  \* WriterSpec: animation frames among the hand frames
Tolerance == 50       \* ConvergeSpec: distance that counts as converged (the integer
                      \* lerp with factor 0.02 stops moving up below 0.050)

SlideSteps == {2000}
GestureSteps == {400, 500}

Xs == {400, 410, 450}         \* landmarks[9].x values
MainXs == {400, 450}
BatchSizes == {1}               \* files chosen in one upload
Seeds == {1, 2}                 \* outcomes of the particle generation
SignalXs == {0, 400, 1000}
SignalYs == {0, 500, 1000}
Ys == {500}                   \* landmarks[9].y values
Fingers == {8, 12, 16, 20}    \* tip landmark of index, middle, ring, pinky

(* Program constants *)
VICTORY_DEBOUNCE == 800
SWIPE_THRESHOLD == 30
SWIPE_COOLDOWN == 500
SLIDE_INTERVAL == 4000

NoX == -1
NoHand == << >>
NoInterval == [on |-> FALSE, due |-> 0, len |-> 0]

-----------------------------------------------------------------------------
(* Detector frames: the landmarks the classifier reads *)

Pip(tip) == tip - 2

Hand(x, y, tipY) ==
    [i \in {6, 8, 9, 10, 12, 14, 16, 18, 20} |->
        IF i = 9 THEN [x |-> x, y |-> y]
        ELSE IF i \in Fingers THEN [x |-> x, y |-> tipY[i]]
        ELSE [x |-> x, y |-> 500]]

Pose(index, middle, ring, pinky) ==
    (8 :> index) @@ (12 :> middle) @@ (16 :> ring) @@ (20 :> pinky)

FistPose    == Pose(600, 600, 600, 600)
VictoryPose == Pose(400, 400, 600, 600)
OpenPose    == Pose(400, 400, 400, 400)

(* 0 to 4 extended fingers, two of them not a victory, tips level with the PIP *)
TipPoses ==
    { FistPose, VictoryPose, OpenPose,
      Pose(400, 600, 600, 600),
      Pose(400, 600, 400, 600),
      Pose(400, 400, 400, 600),
      Pose(500, 500, 500, 500),
      Pose(400, 400, 500, 500) }

Landmarks == { Hand(x, y, p) : x \in Xs, y \in Ys, p \in TipPoses }

(* fist and open hand at one place, victory at two *)
MainLandmarks ==
    { Hand(400, y, p) : y \in Ys, p \in {FistPose, OpenPose} }
      \cup { Hand(x, y, VictoryPose) : x \in MainXs, y \in Ys }

(* hands at the edges and inside of the camera image, as a fist and as a
   victory sign *)
SignalLandmarks ==
    { Hand(x, y, p) : x \in SignalXs, y \in SignalYs, p \in {FistPose, VictoryPose} }

(* a fist and an open hand: the two poses that set the mode without focus *)
PoseLandmarks == { Hand(400, 500, p) : p \in {FistPose, OpenPose} }

-----------------------------------------------------------------------------
(* HandController: feature extraction *)

isExtended(lm, tipIdx, pipIdx) == lm[tipIdx].y < lm[pipIdx].y

fingersExtendedCount(lm) ==
    Cardinality({ f \in Fingers : isExtended(lm, f, Pip(f)) })

(* Faulty variant: a two-finger hand counted as a fist *)
isFistUpToTwo(lm) == fingersExtendedCount(lm) <= 2

isFist(lm) == fingersExtendedCount(lm) < 2

(* Faulty variant: the middle finger is not looked at *)
isVictoryIgnoringMiddle(lm) ==
    /\ isExtended(lm, 8, 6)
    /\ ~isExtended(lm, 16, 14)
    /\ ~isExtended(lm, 20, 18)

isVictory(lm) ==
    /\ isExtended(lm, 8, 6)
    /\ isExtended(lm, 12, 10)
    /\ ~isExtended(lm, 16, 14)
    /\ ~isExtended(lm, 20, 18)

TreeStateOf(lm) == IF isFist(lm) THEN "FORMED" ELSE "CHAOS"

(* Faulty variant: selection fires again at exactly 800 ms *)
SelectFiresAtDebounce(lm) == isVictory(lm) /\ now - lastVictoryTime >= VICTORY_DEBOUNCE

SelectFires(lm) == isVictory(lm) /\ now - lastVictoryTime > VICTORY_DEBOUNCE

Abs(n) == IF n < 0 THEN -n ELSE n

(* Faulty variant: no cooldown between swipes *)
SwipeOfNoCooldown(lm) ==
    IF isVictory(lm) /\ lastHandX # NoX /\ Abs(lm[9].x - lastHandX) > SWIPE_THRESHOLD
    THEN IF lm[9].x - lastHandX > 0 THEN << "right" >> ELSE << "left" >>
    ELSE << >>

(* Faulty variant: directions exchanged *)
SwipeOfMirrored(lm) ==
    IF /\ isVictory(lm) /\ lastHandX # NoX /\ Abs(lm[9].x - lastHandX) > SWIPE_THRESHOLD
       /\ now - lastSwipeTime > SWIPE_COOLDOWN
    THEN IF lm[9].x - lastHandX > 0 THEN << "left" >> ELSE << "right" >>
    ELSE << >>

SwipeOf(lm) ==
    IF isVictory(lm) /\ lastHandX # NoX
    THEN LET dx == lm[9].x - lastHandX
         IN  IF Abs(dx) > SWIPE_THRESHOLD /\ now - lastSwipeTime > SWIPE_COOLDOWN
             THEN IF dx > 0 THEN << "right" >> ELSE << "left" >>
             ELSE << >>
    ELSE << >>

(* Faulty variant: x is centred but not scaled to -1 .. 1 *)
RotationOfHalfRange(lm) == (lm[9].x - 500) * 5

RotationOf(lm) == ((lm[9].x - 500) * 2) * 5

ZoomOf(lm) == (lm[9].y - 500) * 2

-----------------------------------------------------------------------------
(* Scene: handlers *)

JsMod(a, b) == IF a >= 0 THEN a % b ELSE 0 - ((0 - a) % b)

Updater(dir, len) == [dir |-> dir, len |-> len]

(* Faulty variant: left without the + len that keeps the operand positive *)
ApplyUpdaterNoWrap(prev, u) ==
    IF u.dir = "right"
    THEN JsMod(prev + 1, u.len)
    ELSE JsMod(prev - 1, u.len)

ApplyUpdater(prev, u) ==
    IF u.dir = "right"
    THEN JsMod(prev + 1, u.len)
    ELSE JsMod(prev - 1 + u.len, u.len)

(* Faulty variant: only the last queued update counts *)
ApplyAllLastWins(prev, us) ==
    IF us = << >> THEN prev ELSE ApplyUpdater(prev, us[Len(us)])

RECURSIVE ApplyAll(_, _)
ApplyAll(prev, us) ==
    IF us = << >> THEN prev
    ELSE ApplyAll(ApplyUpdater(prev, Head(us)), Tail(us))

(* Faulty variant: the guard looks at the list only *)
handleSwipeAnyFocus(direction) ==
    IF Len(photos) = 0
    THEN << >>
    ELSE << Updater(direction, Len(photos)) >>

(* Faulty variant: no guard on focus and on the empty list *)
handleSwipeUnguarded(direction) == << Updater(direction, Len(photos)) >>

handleSwipe(direction) ==
    IF ~focusMode \/ Len(photos) = 0
    THEN << >>
    ELSE << Updater(direction, Len(photos)) >>

RECURSIVE SwipeUpdates(_)
SwipeUpdates(dirs) ==
    IF dirs = << >> THEN << >>
    ELSE handleSwipe(Head(dirs)) \o SwipeUpdates(Tail(dirs))

Lerp(a, b, num, den) == a + ((b - a) * num) \div den

handleZoom(delta) == Lerp(cameraZ, 18000 + delta * 10, 5, 100)

-----------------------------------------------------------------------------
(* LuxuryTree: photo ornaments *)

ORNAMENT_COUNT == 12

GenerateOrnaments(len) ==
    IF len = 0 THEN << >> ELSE [i \in 1 .. ORNAMENT_COUNT |-> (i - 1) % len]

(* Faulty variant: the ornaments are computed for the first photos only *)
photoOrnamentsComputedOnce(oldLen, newLen) ==
    IF oldLen # 0 \/ newLen = oldLen THEN ornaments ELSE GenerateOrnaments(newLen)

(* useMemo(..., [photos.length]): the cached list unless the length changed *)
photoOrnaments(oldLen, newLen) ==
    IF newLen = oldLen THEN ornaments ELSE GenerateOrnaments(newLen)

-----------------------------------------------------------------------------
(* LuxuryTree and Atmosphere: particle groups.  Every group is generated with
   ParticleCount particles in place of 40000, 6000, 2000, 45, 90 and 150. *)

TreeGroups == {"needles", "trunk", "dust"}
AtmosphereGroups == {"gifts", "balls", "lights"}
Groups == TreeGroups \cup AtmosphereGroups
ChaosGroups == Groups \ {"trunk"}      \* trunkData has no chaos array
Axes == {"x", "y", "z"}

GroupNo(g) ==
    CASE g = "needles" -> 1 [] g = "trunk" -> 2 [] g = "dust" -> 3
      [] g = "gifts" -> 4 [] g = "balls" -> 5 [] g = "lights" -> 6

Pos(x, y, z) == [x |-> x, y |-> y, z |-> z]

(* Outcomes of the Math.random() calls of one generation *)
FormedAt(seed, g, i) ==
    Pos(500 * (GroupNo(g) + i) - 1500 * seed,
        1000 * i - 500 * GroupNo(g),
        2000 * seed - 400 * (GroupNo(g) + i))

ChaosAt(seed, g, i) ==
    LET f == FormedAt(seed, g, i)
    IN  Pos(f.x * 3 + 700, f.y * 3 - 700 * seed, f.z * 3 + 300)

TrunkStartAt(seed, i) == Pos(300 * seed - 800, 2000 * i - 4500, 900 - 400 * seed)

(* array sizes at generation and loop bounds of the frame callbacks *)
GenCount(g) == ParticleCount

LoopCountPastDust(g) == IF g = "dust" THEN ParticleCount + 1 ELSE ParticleCount

LoopCount(g) == ParticleCount

GenerateFormed(seed) == [g \in Groups |-> [i \in 1 .. GenCount(g) |-> FormedAt(seed, g, i)]]

GenerateChaos(seed) ==
    [g \in ChaosGroups |-> [i \in 1 .. GenCount(g) |-> ChaosAt(seed, g, i)]]

GenerateCurrent(seed) ==
    [g \in Groups |->
        [i \in 1 .. GenCount(g) |->
            IF g = "trunk" THEN TrunkStartAt(seed, i)
            ELSE IF g \in AtmosphereGroups THEN FormedAt(seed, g, i)
            ELSE ChaosAt(seed, g, i)]]

(* lerp factor in 1/100 *)
Alpha(g) ==
    CASE g = "needles" -> 3 [] g = "trunk" -> 3 [] g = "dust" -> 2
      [] g = "gifts" -> 2 [] g = "balls" -> 5 [] g = "lights" -> 15

(* state.clock.elapsedTime of a frame, by what the callbacks take from it:
   the dust spin angle t * 0.5 in quarter turns and sin(t + i) *)
Clocks ==
    { [quarter |-> 0, wave |-> 0], [quarter |-> 1, wave |-> 1],
      [quarter |-> 3, wave |-> -1] }

Cos4(q) == CASE q = 0 -> 1 [] q = 1 -> 0 [] q = 2 -> -1 [] q = 3 -> 0
Sin4(q) == CASE q = 0 -> 0 [] q = 1 -> 1 [] q = 2 -> 0 [] q = 3 -> -1

NEEDLE_NOISE == 50
DUST_BOB == 200

(* faulty variant: the needles jitter in both modes *)
BlendTargetJitterWhenFormed(g, i, c) ==
    LET isFormed == treeState = "FORMED"
        f == formed[g][i]
    IN  CASE g = "needles" ->
               LET noise == c.wave * NEEDLE_NOISE
                   t == IF isFormed THEN f ELSE chaos[g][i]
               IN  Pos(t.x + noise, t.y + noise, t.z + noise)
          [] g = "trunk" ->
               IF isFormed THEN f ELSE Pos(f.x * 5, f.y \div 10, f.z * 5)
          [] g = "dust" ->
               IF isFormed
               THEN Pos(f.x * Cos4(c.quarter) - f.z * Sin4(c.quarter),
                        f.y + c.wave * DUST_BOB,
                        f.x * Sin4(c.quarter) + f.z * Cos4(c.quarter))
               ELSE chaos[g][i]
          [] OTHER -> IF isFormed THEN f ELSE chaos[g][i]

(* the point a group's particle is blended toward in one frame *)
BlendTarget(g, i, c) ==
    LET isFormed == treeState = "FORMED"
        f == formed[g][i]
    IN  CASE g = "needles" ->
               IF isFormed THEN f
               ELSE LET noise == c.wave * NEEDLE_NOISE
                        t == chaos[g][i]
                    IN  Pos(t.x + noise, t.y + noise, t.z + noise)
          [] g = "trunk" ->
               IF isFormed THEN f ELSE Pos(f.x * 5, f.y \div 10, f.z * 5)
          [] g = "dust" ->
               IF isFormed
               THEN Pos(f.x * Cos4(c.quarter) - f.z * Sin4(c.quarter),
                        f.y + c.wave * DUST_BOB,
                        f.x * Sin4(c.quarter) + f.z * Cos4(c.quarter))
               ELSE chaos[g][i]
          [] OTHER -> IF isFormed THEN f ELSE chaos[g][i]

LerpPos(p, t, num) ==
    Pos(Lerp(p.x, t.x, num, 100), Lerp(p.y, t.y, num, 100), Lerp(p.z, t.z, num, 100))

Blend(g, c) ==
    [i \in DOMAIN current[g] |->
        IF i <= LoopCount(g)
        THEN LerpPos(current[g][i], BlendTarget(g, i, c), Alpha(g))
        ELSE current[g][i]]

(* the point particle i of group g is blended toward in a frame whose
   callback sees the mode prop m *)
TargetUnder(m, g, i, c) ==
    LET f == formed[g][i]
    IN  IF m = "FORMED"
        THEN IF g = "dust"
             THEN Pos(f.x * Cos4(c.quarter) - f.z * Sin4(c.quarter),
                      f.y + c.wave * DUST_BOB,
                      f.x * Sin4(c.quarter) + f.z * Cos4(c.quarter))
             ELSE f
        ELSE IF g = "trunk" THEN Pos(f.x * 5, f.y \div 10, f.z * 5)
             ELSE IF g = "needles"
                  THEN Pos(chaos[g][i].x + c.wave * NEEDLE_NOISE,
                           chaos[g][i].y + c.wave * NEEDLE_NOISE,
                           chaos[g][i].z + c.wave * NEEDLE_NOISE)
                  ELSE chaos[g][i]

(* Faulty variant: Atmosphere's callback still holds the mode of the frame
   before *)
AtmosphereUseFrameStaleMode(c) ==
    [g \in AtmosphereGroups |->
        [i \in DOMAIN current[g] |->
            LerpPos(current[g][i],
                    TargetUnder(IF prevMode = "none" THEN treeState ELSE prevMode, g, i, c),
                    Alpha(g))]]

(* useFrame of LuxuryTree: needles, trunk, dust *)
TreeUseFrame(c) == [g \in TreeGroups |-> Blend(g, c)]

(* useFrame of Atmosphere: animateGroup for gifts, balls, lights *)
AtmosphereUseFrame(c) == [g \in AtmosphereGroups |-> Blend(g, c)]

-----------------------------------------------------------------------------
SceneInit ==
    /\ now = T0
    /\ tracker = "loading"
    /\ lastHandX = NoX
    /\ lastSwipeTime = 0
    /\ lastVictoryTime = 0
    /\ swipes = << >>
    /\ treeState = "FORMED"
    /\ focusMode = FALSE
    /\ rotation = 0
    /\ slideshowIndex = 0
    /\ photos = << >>
    /\ cameraZ = 18000
    /\ interval = NoInterval
    /\ slideSince = 0
    /\ pendTree = << >>
    /\ pendFocus = << >>
    /\ pendRot = << >>
    /\ pendIdx = << >>
    /\ pendPhotos = << >>
    /\ mounted = TRUE
    /\ camera = "off"
    /\ ornaments = GenerateOrnaments(0)
    /\ frame = 0
    /\ prevMode = "none"
    /\ prevFrameX = NoX

Generated(seed) ==
    /\ formed = GenerateFormed(seed)
    /\ chaos = GenerateChaos(seed)
    /\ current = GenerateCurrent(seed)

Init == SceneInit /\ Generated(1)

ParticleInit == SceneInit /\ \E seed \in Seeds : Generated(seed)

(* init(): the landmarker and the camera come up, or the try block throws *)
TrackerReady ==
    /\ tracker = "loading"
    /\ tracker' = "ready"
    /\ camera' = "on"
    /\ UNCHANGED << now, classifierVars, swipes, committedVars, cameraZ, interval,
                    slideSince, prevFrameX, pendingVars, mounted, ornaments, particleVars >>

TrackerFailed ==
    /\ tracker = "loading"
    /\ tracker' = "failed"
    /\ UNCHANGED << now, classifierVars, swipes, committedVars, cameraZ, interval,
                    slideSince, prevFrameX, pendingVars, lifeVars, ornaments, particleVars >>

(* init() step by step: createFromOptions resolved, landmarkerRef is set.
   The effect has no cleanup and no cancellation flag, so the steps of init()
   run whether or not the component is still mounted. *)
LandmarkerCreated ==
    /\ tracker = "loading"
    /\ tracker' = "model"
    /\ UNCHANGED << now, classifierVars, swipes, committedVars, cameraZ, interval,
                    slideSince, prevFrameX, pendingVars, lifeVars, ornaments, particleVars >>

(* getUserMedia resolved, the stream is attached to the video element *)
CameraStarted ==
    /\ tracker = "model"
    /\ tracker' = "ready"
    /\ camera' = "on"
    /\ UNCHANGED << now, classifierVars, swipes, committedVars, cameraZ, interval,
                    slideSince, prevFrameX, pendingVars, mounted, ornaments, particleVars >>

(* an await of init() rejected *)
InitFailed ==
    /\ tracker \in {"loading", "model"}
    /\ tracker' = "failed"
    /\ UNCHANGED << now, classifierVars, swipes, committedVars, cameraZ, interval,
                    slideSince, prevFrameX, pendingVars, lifeVars, ornaments, particleVars >>

(* The scene is unmounted: frame callbacks are unsubscribed and the slideshow
   effect's cleanup clears the interval.  HandController registers no cleanup. *)
Unmount ==
    /\ mounted
    /\ mounted' = FALSE
    /\ interval' = NoInterval
    /\ UNCHANGED << now, tracker, classifierVars, swipes, committedVars, cameraZ,
                    slideSince, prevFrameX, pendingVars, camera, ornaments, particleVars >>

(* Faulty variant: the frame stores the spun dust target back into formed *)
AnimationFrameBakingSpin(c) ==
    /\ mounted
    /\ frame < MaxFrames
    /\ current' = TreeUseFrame(c) @@ AtmosphereUseFrame(c)
    /\ formed' = [formed EXCEPT !["dust"] =
                      [i \in DOMAIN formed["dust"] |->
                          IF treeState = "FORMED" THEN BlendTarget("dust", i, c)
                          ELSE formed["dust"][i]]]
    /\ frame' = frame + 1
    /\ prevMode' = treeState
    /\ UNCHANGED << now, tracker, classifierVars, swipes, committedVars, cameraZ,
                    interval, slideSince, prevFrameX, pendingVars, lifeVars, ornaments, chaos >>

(* faulty variant: the frame also lets the rotation signal die away *)
AnimationFrameDampingRotation(c) ==
    /\ mounted
    /\ frame < MaxFrames
    /\ current' = TreeUseFrame(c) @@ AtmosphereUseFrame(c)
    /\ frame' = frame + 1
    /\ prevMode' = treeState
    /\ pendRot' = << 0 >>
    /\ UNCHANGED << now, tracker, classifierVars, swipes, committedVars, cameraZ,
                    interval, slideSince, prevFrameX, pendTree, pendFocus, pendIdx,
                    pendPhotos, lifeVars, ornaments, targetVars >>

(* One pass of the render loop over the particle groups: the useFrame
   callbacks of LuxuryTree and Atmosphere with mode = treeState *)
AnimationFrame(c) ==
    /\ mounted
    /\ frame < MaxFrames
    /\ current' = TreeUseFrame(c) @@ AtmosphereUseFrame(c)
    /\ frame' = frame + 1
    /\ prevMode' = treeState
    /\ UNCHANGED << now, tracker, classifierVars, swipes, committedVars, cameraZ,
                    interval, slideSince, prevFrameX, pendingVars, lifeVars, ornaments,
                    targetVars >>

Animate == \E c \in Clocks : AnimationFrame(c)

(* the clock of the k-th frame of a render loop that runs on a steady cadence,
   one frame per quarter turn of the dust spin: t * 0.5 = k * pi / 2, and
   sin(t + i) changes sign from frame to frame *)
ClockAt(k) == [quarter |-> k % 4, wave |-> IF k % 2 = 0 THEN 1 ELSE -1]

(* A frame of that loop; the frame count wraps with the spin *)
SteadyFrame ==
    /\ mounted
    /\ current' = TreeUseFrame(ClockAt(frame)) @@ AtmosphereUseFrame(ClockAt(frame))
    /\ frame' = (frame + 1) % 4
    /\ prevMode' = treeState
    /\ UNCHANGED << now, tracker, classifierVars, swipes, committedVars, cameraZ,
                    interval, slideSince, prevFrameX, pendingVars, lifeVars, ornaments,
                    targetVars >>

(* Faulty variant: every victory frame refreshes lastVictoryTime *)
UseFrameStampingEveryVictory(result) ==
    /\ mounted
    /\ Len(pendIdx) < MaxPending
    /\ IF tracker # "ready" \/ result = NoHand
       THEN /\ swipes' = << >>
            /\ UNCHANGED << classifierVars, cameraZ, pendingVars >>
       ELSE LET select == SelectFires(result)
                swipe  == SwipeOf(result)
            IN  /\ pendTree' = << TreeStateOf(result) >>
                /\ pendFocus' = IF select THEN << TRUE >> ELSE pendFocus
                /\ lastVictoryTime' = IF isVictory(result) THEN now ELSE lastVictoryTime
                /\ swipes' = swipe
                /\ pendIdx' = pendIdx \o SwipeUpdates(swipe)
                /\ lastSwipeTime' = IF swipe # << >> THEN now ELSE lastSwipeTime
                /\ lastHandX' = result[9].x
                /\ pendRot' = << RotationOf(result) >>
                /\ cameraZ' = handleZoom(ZoomOf(result))
                /\ UNCHANGED pendPhotos
    /\ UNCHANGED << now, tracker, committedVars, interval, slideSince, lifeVars,
                    ornaments, targetVars >>

(* Faulty variant: a frame without a hand recentres the rotation signal *)
UseFrameZeroingSignals(result) ==
    /\ mounted
    /\ Len(pendIdx) < MaxPending
    /\ IF tracker # "ready" \/ result = NoHand
       THEN /\ swipes' = << >>
            /\ pendRot' = << 0 >>
            /\ UNCHANGED << classifierVars, cameraZ, pendTree, pendFocus, pendIdx,
                            pendPhotos >>
       ELSE LET select == SelectFires(result)
                swipe  == SwipeOf(result)
            IN  /\ pendTree' = << TreeStateOf(result) >>
                /\ pendFocus' = IF select THEN << TRUE >> ELSE pendFocus
                /\ lastVictoryTime' = IF select THEN now ELSE lastVictoryTime
                /\ swipes' = swipe
                /\ pendIdx' = pendIdx \o SwipeUpdates(swipe)
                /\ lastSwipeTime' = IF swipe # << >> THEN now ELSE lastSwipeTime
                /\ lastHandX' = result[9].x
                /\ pendRot' = << RotationOf(result) >>
                /\ cameraZ' = handleZoom(ZoomOf(result))
                /\ UNCHANGED pendPhotos
    /\ UNCHANGED << now, tracker, committedVars, interval, slideSince, lifeVars,
                    ornaments, targetVars >>

(* faulty variant: the swipe time is recorded only for a swipe the scene took *)
UseFrameStampingAppliedSwipes(result) ==
    /\ mounted
    /\ Len(pendIdx) < MaxPending
    /\ IF tracker # "ready" \/ result = NoHand
       THEN /\ swipes' = << >>
            /\ UNCHANGED << classifierVars, cameraZ, pendingVars >>
       ELSE LET select == SelectFires(result)
                swipe  == SwipeOf(result)
            IN  /\ pendTree' = << TreeStateOf(result) >>
                /\ pendFocus' = IF select THEN << TRUE >> ELSE pendFocus
                /\ lastVictoryTime' = IF select THEN now ELSE lastVictoryTime
                /\ swipes' = swipe
                /\ pendIdx' = pendIdx \o SwipeUpdates(swipe)
                /\ lastSwipeTime' = IF SwipeUpdates(swipe) # << >> THEN now ELSE lastSwipeTime
                /\ lastHandX' = result[9].x
                /\ pendRot' = << RotationOf(result) >>
                /\ cameraZ' = handleZoom(ZoomOf(result))
                /\ UNCHANGED pendPhotos
    /\ UNCHANGED << now, tracker, committedVars, interval, slideSince, lifeVars,
                    ornaments, targetVars >>

(* useFrame callback of HandController on one detection result *)
UseFrame(result) ==
    /\ mounted
    /\ Len(pendIdx) < MaxPending
    /\ IF tracker # "ready" \/ result = NoHand
       THEN /\ swipes' = << >>
            /\ UNCHANGED << classifierVars, cameraZ, pendingVars >>
       ELSE LET select == SelectFires(result)
                swipe  == SwipeOf(result)
            IN  /\ pendTree' = << TreeStateOf(result) >>
                /\ pendFocus' = IF select THEN << TRUE >> ELSE pendFocus
                /\ lastVictoryTime' = IF select THEN now ELSE lastVictoryTime
                /\ swipes' = swipe
                /\ pendIdx' = pendIdx \o SwipeUpdates(swipe)
                /\ lastSwipeTime' = IF swipe # << >> THEN now ELSE lastSwipeTime
                /\ lastHandX' = result[9].x
                /\ pendRot' = << RotationOf(result) >>
                /\ cameraZ' = handleZoom(ZoomOf(result))
                /\ UNCHANGED pendPhotos
    /\ UNCHANGED << now, tracker, committedVars, interval, slideSince, lifeVars,
                    ornaments, targetVars >>

HandFrame == \E lm \in MainLandmarks : UseFrame(lm) /\ UNCHANGED << current, frame, prevMode, prevFrameX >>

AnyHandFrame == \E lm \in Landmarks : UseFrame(lm) /\ UNCHANGED << current, frame, prevMode, prevFrameX >>

NoHandFrame == UseFrame(NoHand) /\ UNCHANGED << current, frame, prevMode, prevFrameX >>

(* what the detection of a frame showed; a frame that returns before
   detectForVideo is no detection *)
SeenX(result) ==
    IF tracker # "ready" THEN prevFrameX
    ELSE IF result = NoHand THEN NoX ELSE result[9].x

(* frames with the latest detection recorded *)
TrackedHandFrame ==
    \E lm \in Landmarks :
        /\ UseFrame(lm)
        /\ prevFrameX' = SeenX(lm)
        /\ UNCHANGED << current, frame, prevMode >>

TrackedNoHandFrame ==
    /\ UseFrame(NoHand)
    /\ prevFrameX' = SeenX(NoHand)
    /\ UNCHANGED << current, frame, prevMode >>

(* a hand frame in a counted pass of the render loop *)
SignalFrame ==
    \E lm \in SignalLandmarks :
        /\ frame < MaxFrames
        /\ UseFrame(lm)
        /\ frame' = frame + 1
        /\ UNCHANGED << current, prevMode, prevFrameX >>

PoseFrame == \E lm \in PoseLandmarks : UseFrame(lm) /\ UNCHANGED << current, frame, prevMode, prevFrameX >>

(* setInterval callback of the slideshow effect *)
TimerFire ==
    /\ interval.on
    /\ now >= interval.due
    /\ Len(pendIdx) < MaxPending
    /\ pendIdx' = Append(pendIdx, Updater("right", interval.len))
    /\ interval' = [interval EXCEPT !.due = interval.due + SLIDE_INTERVAL]
    /\ slideSince' = now
    /\ UNCHANGED << now, tracker, classifierVars, swipes, committedVars, cameraZ,
                    pendTree, pendFocus, pendRot, pendPhotos, lifeVars, ornaments,
                    particleVars, prevFrameX >>

(* FocusedPhotoOverlay: onClick={onClose}.  The mesh exists only with a
   non-empty list and stays clickable while it fades out. *)
CloseOverlay ==
    /\ Len(photos) > 0
    /\ pendFocus' = << FALSE >>
    /\ UNCHANGED << now, tracker, classifierVars, swipes, committedVars, cameraZ,
                    interval, slideSince, prevFrameX, pendTree, pendRot, pendIdx, pendPhotos,
                    lifeVars, ornaments, particleVars >>

Flatten(batches) ==
    LET RECURSIVE Go(_)
        Go(bs) == IF bs = << >> THEN 0 ELSE Len(Head(bs)) + Go(Tail(bs))
    IN  Go(batches)

(* handlePhotoUpload: n files chosen, each gets a fresh object URL *)
PhotoUpload(n) ==
    LET have == Len(photos) + Flatten(pendPhotos)
    IN  /\ n > 0
        /\ have + n <= MaxPhotos
        /\ pendPhotos' = Append(pendPhotos, [i \in 1..n |-> have + i])
        /\ UNCHANGED << now, tracker, classifierVars, swipes, committedVars, cameraZ,
                        interval, slideSince, prevFrameX, pendTree, pendFocus, pendRot,
                        pendIdx, lifeVars, ornaments, particleVars >>

(* Faulty variant: an upload replaces the list *)
PrependedReplacing(prev, batches) ==
    IF batches = << >> THEN prev ELSE batches[Len(batches)]

RECURSIVE Prepended(_, _)
Prepended(prev, batches) ==
    IF batches = << >> THEN prev
    ELSE Prepended(Head(batches) \o prev, Tail(batches))

HasPending ==
    \/ pendTree # << >>
    \/ pendFocus # << >>
    \/ pendRot # << >>
    \/ pendIdx # << >>
    \/ pendPhotos # << >>

RenderTree == IF pendTree = << >> THEN treeState ELSE pendTree[1]
RenderFocus == IF pendFocus = << >> THEN focusMode ELSE pendFocus[1]
RenderRotation == IF pendRot = << >> THEN rotation ELSE pendRot[1]
(* Faulty variant: a focus request resets the index *)
RenderIndexResetOnFocus ==
    IF pendFocus = << TRUE >> THEN 0 ELSE ApplyAll(slideshowIndex, pendIdx)

RenderIndex == ApplyAll(slideshowIndex, pendIdx)
RenderPhotos == Prepended(photos, pendPhotos)

(* Faulty variant: the effect closes the focus on every change of the mode *)
FormedEffectOnAnyChange(newTree) ==
    IF newTree # treeState THEN << FALSE >> ELSE << >>

(* useEffect(..., [treeState]) *)
FormedEffect(newTree) ==
    IF newTree # treeState /\ newTree = "FORMED" THEN << FALSE >> ELSE << >>

(* Faulty variant: the cleanup does not clear the interval *)
SlideshowEffectNeverCleared(newFocus, newLen) ==
    IF newFocus /\ newLen > 0 /\ ~(newFocus = focusMode /\ newLen = Len(photos))
    THEN [on |-> TRUE, due |-> now + SLIDE_INTERVAL, len |-> newLen]
    ELSE interval

(* Faulty variant: the effect also depends on slideshowIndex *)
SlideshowEffectKeyedOnIndex(newFocus, newLen) ==
    IF newFocus = focusMode /\ newLen = Len(photos) /\ RenderIndex = slideshowIndex
    THEN interval
    ELSE IF newFocus /\ newLen > 0
         THEN [on |-> TRUE, due |-> now + SLIDE_INTERVAL, len |-> newLen]
         ELSE NoInterval

(* Faulty variant: every applied focus request runs the effect again *)
SlideshowEffectOnEveryRequest(newFocus, newLen) ==
    IF pendFocus = << >> /\ newFocus = focusMode /\ newLen = Len(photos)
    THEN interval
    ELSE IF newFocus /\ newLen > 0
         THEN [on |-> TRUE, due |-> now + SLIDE_INTERVAL, len |-> newLen]
         ELSE NoInterval

(* useEffect(..., [focusMode, photos.length]) *)
SlideshowEffect(newFocus, newLen) ==
    IF newFocus = focusMode /\ newLen = Len(photos)
    THEN interval
    ELSE IF newFocus /\ newLen > 0
         THEN [on |-> TRUE, due |-> now + SLIDE_INTERVAL, len |-> newLen]
         ELSE NoInterval

(* One React render: process the queues, commit, run the effects *)
Render ==
    /\ mounted
    /\ HasPending
    /\ treeState' = RenderTree
    /\ focusMode' = RenderFocus
    /\ rotation' = RenderRotation
    /\ slideshowIndex' = RenderIndex
    /\ photos' = RenderPhotos
    /\ pendTree' = << >>
    /\ pendRot' = << >>
    /\ pendIdx' = << >>
    /\ pendPhotos' = << >>
    /\ pendFocus' = FormedEffect(RenderTree)
    /\ interval' = SlideshowEffect(RenderFocus, Len(RenderPhotos))
    /\ slideSince' = IF RenderFocus /\ Len(RenderPhotos) > 0
                     THEN IF focusMode /\ Len(photos) > 0 THEN slideSince ELSE now
                     ELSE 0
    /\ ornaments' = photoOrnaments(Len(photos), Len(RenderPhotos))
    /\ UNCHANGED << now, tracker, classifierVars, swipes, cameraZ, lifeVars, particleVars,
                    prevFrameX >>

(* Time passes by a step of hundreds of ms; React has rendered every queued
   update long before that, and an armed interval fires no later than it is
   due *)
Tick(d) ==
    /\ ~HasPending
    /\ interval.on => now + d <= interval.due
    /\ now' = now + d
    /\ UNCHANGED << tracker, classifierVars, swipes, committedVars, cameraZ, interval,
                    slideSince, prevFrameX, pendingVars, lifeVars, ornaments, particleVars >>

Advance ==
    \E d \in SlideSteps :
        /\ now + d <= T0 + MaxSlideTicks * 2000
        /\ Tick(d)

AdvanceGesture ==
    \E d \in GestureSteps :
        /\ now + d <= T0 + MaxGestureSpan * 100
        /\ Tick(d)

Upload == \E n \in BatchSizes : PhotoUpload(n)

Next ==
    \/ TrackerReady
    \/ TrackerFailed
    \/ HandFrame
    \/ NoHandFrame
    \/ TimerFire
    \/ CloseOverlay
    \/ Upload
    \/ Render
    \/ Advance

Spec == Init /\ [][Next]_vars

(* The classifier alone: every pose, a fine clock, no photos *)
NextGesture ==
    \/ TrackerReady
    \/ AnyHandFrame
    \/ NoHandFrame
    \/ Render
    \/ AdvanceGesture

GestureSpec == Init /\ [][NextGesture]_vars

(* The particle groups under mode changes *)
NextParticle ==
    \/ TrackerReady
    \/ TrackerFailed
    \/ PoseFrame
    \/ NoHandFrame
    \/ Render
    \/ Animate

ParticleSpec == ParticleInit /\ [][NextParticle]_vars

(* The classifier with the hand leaving and re-entering the image *)
NextSwipe ==
    \/ TrackerReady
    \/ TrackedHandFrame
    \/ TrackedNoHandFrame
    \/ Render
    \/ AdvanceGesture

SwipeSpec == Init /\ [][NextSwipe]_vars

(* The mode is chosen before the first frame and then held; frames run for
   ever on a steady clock *)
NextConverge ==
    \/ prevMode = "none" /\ TrackerReady
    \/ prevMode = "none" /\ PoseFrame
    \/ prevMode = "none" /\ Render
    \/ SteadyFrame

ConvergeSpec == ParticleInit /\ [][NextConverge]_vars /\ WF_vars(SteadyFrame)

(* The continuous signals: hands anywhere in the image, no clock *)
NextSignal ==
    \/ TrackerReady
    \/ SignalFrame
    \/ NoHandFrame
    \/ Render

SignalSpec == Init /\ [][NextSignal]_vars

(* The animation of the particles beside the classifier with every gesture *)
NextWriter ==
    \/ TrackerReady
    \/ HandFrame
    \/ NoHandFrame
    \/ Render
    \/ frame < MaxWriterFrames /\ Animate

WriterSpec == Init /\ [][NextWriter]_vars

(* The classifier on a fine clock beside uploads: swipes with and without
   photos, with and without focus *)
NextCooldown ==
    \/ TrackerReady
    \/ HandFrame
    \/ NoHandFrame
    \/ Upload
    \/ Render
    \/ AdvanceGesture

CooldownSpec == Init /\ [][NextCooldown]_vars

(* Mounting, the asynchronous init() and unmounting in every order *)
NextLifecycle ==
    \/ LandmarkerCreated
    \/ CameraStarted
    \/ InitFailed
    \/ Unmount
    \/ HandFrame
    \/ NoHandFrame
    \/ Render
    \/ Animate

LifecycleSpec == Init /\ [][NextLifecycle]_vars

-----------------------------------------------------------------------------
(* Properties *)

(* C1: whenever a treeState = FORMED event is applied, focus is false
   afterwards: the render that applies it either commits focus = false or
   leaves the reset queued for the next render, whatever Mode and focus were
   before. *)
C1_FormedEventClosesFocus ==
    [][(Render /\ pendTree = << "FORMED" >>)
          => (~focusMode' \/ pendFocus' = << FALSE >>)]_vars

(* C2: in every reachable state, Mode = FORMED implies focus = false. *)
C2_FormedImpliesNoFocus == treeState = "FORMED" => ~focusMode

(* Fingers whose tip y is strictly smaller than their PIP y *)
C3_Extended(lm) == { tip \in {8, 12, 16, 20} : lm[tip].y < lm[tip - 2].y }

C3_Mode(lm) == IF Cardinality(C3_Extended(lm)) < 2 THEN "FORMED" ELSE "CHAOS"

(* C3: a frame with a hand queues Mode = FORMED iff fewer than two of the
   four fingers have their tip above the PIP joint, and CHAOS otherwise,
   whatever Mode was; the next render commits exactly that value.  A fist
   gives FORMED and an open hand CHAOS. *)
C3_ModeFollowsFingers ==
    [][/\ \A lm \in Landmarks :
              (tracker = "ready" /\ UseFrame(lm)) => pendTree' = << C3_Mode(lm) >>
       /\ (Render /\ pendTree # << >>) => treeState' = pendTree[1]
       /\ C3_Mode(Hand(400, 500, FistPose)) = "FORMED"
       /\ C3_Mode(Hand(400, 500, OpenPose)) = "CHAOS"]_vars

C3_Witness ==
    /\ treeState = "CHAOS"
    /\ pendTree = << "FORMED" >>
    /\ lastHandX # NoX

(* The victory pose as the claims word it: index and middle extended, ring
   and pinky not *)
SpecVictory(lm) == C3_Extended(lm) = {8, 12}

(* C4 as stated: on a run of victory frames every 800 ms window holds exactly
   one focus request, so the window (now - 800, now] that ends at a victory
   frame holds one: the latest request is younger than 800 ms after the frame,
   and the frame requests focus only if the previous request is outside the
   window. *)
C4_ExactlyOnePerWindow ==
    [][\A lm \in Landmarks :
          (tracker = "ready" /\ UseFrame(lm) /\ SpecVictory(lm))
             => /\ lastVictoryTime' > now - 800
                /\ lastVictoryTime' # lastVictoryTime => now - lastVictoryTime >= 800]_vars

(* C4 amended: a victory frame requests focus iff more than 800 ms have passed
   since the previous request, no other frame requests focus, and the request
   time is recorded, so an 800 ms window holds at most one request (and holds
   none when it lies between two requests). *)
C4_AtMostOnePerWindow ==
    [][\A lm \in Landmarks :
          (tracker = "ready" /\ UseFrame(lm))
             => LET fired == lastVictoryTime' # lastVictoryTime
                IN  /\ fired <=> (SpecVictory(lm) /\ now - lastVictoryTime > 800)
                    /\ fired => (lastVictoryTime' = now /\ pendFocus' = << TRUE >>)
                    /\ ~fired => pendFocus' = pendFocus]_vars

C4_Witness ==
    /\ focusMode
    /\ pendFocus = << TRUE >>
    /\ lastVictoryTime = now
    /\ now - T0 > 800

(* C5: a focus request queues focus = true and nothing else: the frame that
   makes it leaves the committed state alone and queues Mode and rotation as
   every hand frame does; the render that applies it commits focus = true and
   gives Mode, rotation and selectedIndex only what their own queues hold. *)
C5_FocusRequestOnlySetsFocus ==
    [][/\ \A lm \in MainLandmarks :
              (pendFocus' # pendFocus /\ UseFrame(lm))
                 => /\ pendFocus' = << TRUE >>
                    /\ UNCHANGED committedVars
                    /\ pendTree' = << C3_Mode(lm) >>
                    /\ pendRot' = << (lm[9].x - 500) * 10 >>
                    /\ pendIdx' # pendIdx => swipes' # << >>
       /\ (pendFocus = << TRUE >> /\ Render)
             => /\ focusMode'
                /\ treeState' = IF pendTree = << >> THEN treeState ELSE pendTree[1]
                /\ rotation' = IF pendRot = << >> THEN rotation ELSE pendRot[1]
                /\ pendIdx = << >> => slideshowIndex' = slideshowIndex]_vars

C5_Witness ==
    /\ focusMode
    /\ slideshowIndex = 2
    /\ lastVictoryTime = now
    /\ lastSwipeTime < now
    /\ ~HasPending

(* C6: a hand frame emits a swipe iff it is a victory pose, an earlier hand x
   exists, the x moved by more than 0.03 and more than 500 ms have passed
   since the last emitted swipe; it emits one swipe and records its time, and
   a frame that emits none leaves the swipe time alone.  A frame without a
   hand emits none. *)
C6_SwipeIffConditions ==
    [][/\ \A lm \in Landmarks :
              (tracker = "ready" /\ UseFrame(lm))
                 => /\ swipes' # << >>
                          <=> /\ SpecVictory(lm)
                              /\ lastHandX # NoX
                              /\ (lm[9].x - lastHandX > 30 \/ lastHandX - lm[9].x > 30)
                              /\ now - lastSwipeTime > 500
                    /\ swipes' # << >> => (Len(swipes') = 1 /\ lastSwipeTime' = now)
                    /\ swipes' = << >> => lastSwipeTime' = lastSwipeTime
       /\ UseFrame(NoHand) => (swipes' = << >> /\ lastSwipeTime' = lastSwipeTime)]_vars

C6_Witness ==
    /\ swipes = << "left" >>
    /\ lastSwipeTime = now
    /\ now - T0 > 500
    /\ lastHandX = 400

(* C7: with lastHandX = 0.40 and the last swipe more than 500 ms ago, a
   victory frame at x = 0.45 emits swipe(right) once and the same frame again
   emits nothing; a victory frame at x = 0.41 emits nothing. *)
C7_SwipeRightExample ==
    [][\A lm \in Landmarks :
          (tracker = "ready" /\ UseFrame(lm) /\ SpecVictory(lm))
             => /\ (lastHandX = 400 /\ now - lastSwipeTime > 500 /\ lm[9].x = 450)
                      => (swipes' = << "right" >> /\ lastSwipeTime' = now /\ lastHandX' = 450)
                /\ (lastHandX = 400 /\ lm[9].x = 410)
                      => (swipes' = << >> /\ lastSwipeTime' = lastSwipeTime)
                /\ lastHandX = lm[9].x => swipes' = << >>]_vars

C7_Witness ==
    /\ swipes = << "right" >>
    /\ lastHandX = 450
    /\ lastSwipeTime = now
    /\ pendRot = << -500 >>

(* C8: with focus true and len > 0 photos a swipe queues one index update,
   right when x grew and left when it shrank, and the render that applies it
   commits (selectedIndex + 1) mod len for right and
   (selectedIndex - 1 + len) mod len for left, a value in 0 .. len - 1. *)
C8_SwipeStepsIndex ==
    [][/\ \A lm \in MainLandmarks :
              (swipes' # << >> /\ focusMode /\ Len(photos) > 0 /\ UseFrame(lm))
                 => /\ swipes' = << IF lm[9].x > lastHandX THEN "right" ELSE "left" >>
                    /\ pendIdx' = Append(pendIdx, [dir |-> swipes'[1], len |-> Len(photos)])
       /\ (Len(pendIdx) = 1 /\ Render)
             => LET u == pendIdx[1]
                IN  /\ u.len = Len(photos)
                    /\ slideshowIndex' = IF u.dir = "right"
                                         THEN (slideshowIndex + 1) % u.len
                                         ELSE (slideshowIndex - 1 + u.len) % u.len
                    /\ slideshowIndex' \in 0 .. (u.len - 1)]_vars

C8_Witness ==
    /\ focusMode
    /\ Len(photos) = 3
    /\ slideshowIndex = 2
    /\ swipes = << "left" >>
    /\ lastSwipeTime = now
    /\ ~HasPending

(* C9 as stated: while focus is true and the list is non-empty the timer
   fires every 4 s, so never more than 4 s pass since the slideshow started or
   last advanced by timer. *)
C9_FiresEveryFourSeconds ==
    (focusMode /\ Len(photos) > 0) => now - slideSince <= 4000

(* C9 amended: the timer is armed exactly while focus is true and the list is
   non-empty; it is armed anew, 4 s ahead, when that starts and whenever the
   list length changes meanwhile; it fires when due and is then due 4 s later;
   each firing queues selectedIndex := (selectedIndex + 1) mod len, which the
   next render commits; nothing is queued by a timer otherwise. *)
C9_TimerWhileFocused ==
    /\ [](/\ interval.on <=> (focusMode /\ Len(photos) > 0)
          /\ interval.on => /\ interval.len = Len(photos)
                            /\ now <= interval.due
                            /\ interval.due <= now + 4000)
    /\ [][/\ TimerFire
             => /\ now = interval.due
                /\ interval'.due = now + 4000
                /\ pendIdx' = Append(pendIdx, [dir |-> "right", len |-> Len(photos)])
          /\ (focusMode' /\ Len(photos') > 0
                /\ (~focusMode \/ Len(photos') # Len(photos)))
             => interval'.due = now + 4000
          /\ (Len(pendIdx) = 1 /\ pendIdx[1].dir = "right" /\ Render)
             => slideshowIndex' = (slideshowIndex + 1) % Len(photos)
          /\ (pendIdx' # pendIdx /\ ~(focusMode /\ Len(photos) > 0))
             => pendIdx' = << >>]_vars

C9_Witness ==
    /\ focusMode
    /\ slideshowIndex = 1
    /\ lastSwipeTime = 0
    /\ interval.on
    /\ interval.due = now + 4000
    /\ slideSince = now
    /\ ~HasPending

(* C10: with an empty list a swipe or a timer tick changes nothing:
   selectedIndex keeps its value and no index update is queued; no queued
   update and no armed timer ever divides by a length of zero, and the photo
   the overlay reads is an element of the list. *)
C10_EmptyListNoOps ==
    /\ [](/\ \A i \in 1 .. Len(pendIdx) : pendIdx[i].len > 0
          /\ interval.on => interval.len > 0
          /\ slideshowIndex >= 0
          /\ Len(photos) > 0 => (slideshowIndex % Len(photos)) + 1 \in DOMAIN photos
          /\ Len(photos) = 0 => (~interval.on /\ pendIdx = << >>))
    /\ [][Len(photos) = 0 => (slideshowIndex' = slideshowIndex /\ pendIdx' = << >>)]_vars

C10_Witness ==
    /\ photos = << >>
    /\ focusMode
    /\ swipes # << >>
    /\ lastSwipeTime = now
    /\ pendIdx = << >>

(* C11: a frame callback that has no hand to classify (no hand in view, or the
   detector failed or is not ready) emits no event: mode, focus, slideshow
   index, rotation signal, their queued updates, the zoom and the classifier
   memory keep their values; and the particle frames go on without a
   detector *)
C11_NoHandFrameKeepsState ==
    /\ [][\A r \in PoseLandmarks \cup {NoHand} :
            ((r = NoHand \/ tracker # "ready") /\ UseFrame(r))
                => /\ swipes' = << >>
                   /\ UNCHANGED << committedVars, pendingVars, classifierVars,
                                   cameraZ >>]_vars
    /\ []((tracker # "ready" /\ frame < MaxFrames) => ENABLED Animate)

C11_Witness ==
    /\ tracker = "ready"
    /\ lastHandX # NoX
    /\ treeState = "CHAOS"
    /\ rotation # 0
    /\ ~HasPending
    /\ swipes = << >>
    /\ frame >= 2
    /\ ENABLED NoHandFrame

(* Every event of the scene that is not a hand frame *)
NonGestureEvent ==
    \/ NoHandFrame
    \/ TimerFire
    \/ CloseOverlay
    \/ Upload
    \/ Render
    \/ Advance

(* C12: with the detector unavailable the scattered mode is still within
   reach: some event that is not a hand frame requests or commits
   treeState = CHAOS *)
C12_ModeReachableWithoutDetector ==
    (tracker = "failed" /\ treeState = "FORMED" /\ ~HasPending)
        => ENABLED (NonGestureEvent /\ (pendTree' = << "CHAOS" >> \/ treeState' = "CHAOS"))

(* What the code does instead: without a ready detector no setTreeState call
   is ever made, so the mode stays at its initial FORMED *)
C12_ModeStaysFormedWithoutDetector ==
    tracker # "ready" => (treeState = "FORMED" /\ pendTree = << >>)

(* C13: once the scene is unmounted the camera stream is released, however
   the unmount interleaves with the steps of init() *)
C13_DestroyedReleasesCamera == ~mounted => camera = "off"

(* The other half of C13, which the code keeps: an unmounted scene runs no
   frame callback, so no detection step *)
C13_NoDetectionAfterDestroy == ~mounted => ~ENABLED (HandFrame \/ NoHandFrame)

(* C14: in every group the current buffer, the formed target and the
   scattered target (where the group stores one; the trunk derives it from
   the formed target) hold the same number of particles, and every index the
   frame loop visits lies within all of them *)
C14_BuffersSameLength ==
    \A g \in Groups :
        /\ Len(current[g]) = Len(formed[g])
        /\ g \in ChaosGroups => Len(chaos[g]) = Len(formed[g])
        /\ \A i \in 1 .. LoopCount(g) :
              /\ i \in DOMAIN current[g]
              /\ i \in DOMAIN formed[g]
              /\ g \in ChaosGroups => i \in DOMAIN chaos[g]

C14_Witness ==
    /\ frame = MaxFrames
    /\ treeState = "CHAOS"
    /\ prevMode = "FORMED"
    /\ \A g \in Groups : current[g] # formed[g]

(* C15: once generated, the scattered and formed targets of every group are
   never modified: no step changes them, and in every state they are the
   arrays of one generation *)
C15_TargetsNeverModified ==
    /\ [][UNCHANGED targetVars]_vars
    /\ [](\E seed \in Seeds :
            formed = GenerateFormed(seed) /\ chaos = GenerateChaos(seed))

C15_Witness ==
    /\ frame = MaxFrames
    /\ treeState = "FORMED"
    /\ prevMode = "CHAOS"
    /\ lastHandX # NoX
    /\ \E seed \in Seeds :
          /\ formed = GenerateFormed(seed)
          /\ \A g \in Groups : current[g] # GenerateCurrent(seed)[g]

(* The stored target of particle i of group g under the committed mode; the
   trunk's scattered target is its formed target stretched *)
StoredTarget(g, i) ==
    IF treeState = "FORMED" THEN formed[g][i]
    ELSE IF g = "trunk"
         THEN Pos(formed[g][i].x * 5, formed[g][i].y \div 10, formed[g][i].z * 5)
         ELSE chaos[g][i]

(* amplitude of the additive sinusoidal term of a group on an axis *)
NoiseBound(g, a) ==
    IF g = "needles" /\ treeState = "CHAOS" THEN NEEDLE_NOISE
    ELSE IF g = "dust" /\ treeState = "FORMED" /\ a = "y" THEN DUST_BOB
    ELSE 0

(* what one frame adds at most through the noise, with one unit of rounding *)
NoiseStep(g, a) == (Alpha(g) * NoiseBound(g, a)) \div 100 + 1

(* One frame over the groups G: on every axis the distance to the stored
   target does not grow and the offset does not change sign, up to the noise *)
MonotoneStep(G) ==
    \A g \in G : \A i \in DOMAIN current[g] : \A a \in Axes :
        LET d  == current[g][i][a] - StoredTarget(g, i)[a]
            dn == current'[g][i][a] - StoredTarget(g, i)[a]
        IN  /\ Abs(dn) <= Abs(d) + NoiseStep(g, a)
            /\ d >= 0 => dn >= 0 - NoiseStep(g, a)
            /\ d <= 0 => dn <= NoiseStep(g, a)

(* C16: while the mode stays the same, every frame brings every particle of
   every group no farther from its stored target on each axis, never past
   it, apart from the additive noise *)
C16_MonotoneApproach ==
    [][(prevMode = treeState /\ Animate) => MonotoneStep(Groups)]_vars

(* The same for every group but the dust, which the code keeps *)
C16_MonotoneApproachExceptDust ==
    [][(prevMode = treeState /\ Animate) => MonotoneStep(Groups \ {"dust"})]_vars

(* One frame over the groups G moves no coordinate by more than the lerp
   factor times its distance to the stored target of the committed mode,
   plus the noise amplitude and one unit of rounding *)
BoundedStep(G) ==
    \A g \in G : \A i \in DOMAIN current[g] : \A a \in Axes :
        Abs(current'[g][i][a] - current[g][i][a])
            <= (Alpha(g) * Abs(StoredTarget(g, i)[a] - current[g][i][a])) \div 100
                 + NoiseBound(g, a) + 1

(* C17: the first frame after a mode flip moves each coordinate by at most
   alpha times its distance to the new mode's target, plus the noise bound *)
C17_FlipStepBounded ==
    [][(prevMode # "none" /\ prevMode # treeState /\ Animate)
          => BoundedStep(Groups)]_vars

(* The same for every group but the dust, which the code keeps *)
C17_FlipStepBoundedExceptDust ==
    [][(prevMode # "none" /\ prevMode # treeState /\ Animate)
          => BoundedStep(Groups \ {"dust"})]_vars

(* C18: with an empty photo list there are no photo ornaments; otherwise
   there are exactly 12, the i-th (counted from 0) bound to photo i mod len,
   an index of the list as it is now, also after the list has grown *)
C18_OrnamentsMatchPhotos ==
    IF photos = << >>
    THEN ornaments = << >>
    ELSE /\ Len(ornaments) = ORNAMENT_COUNT
         /\ \A i \in 1 .. ORNAMENT_COUNT :
               /\ ornaments[i] = (i - 1) % Len(photos)
               /\ (ornaments[i] % Len(photos)) + 1 \in DOMAIN photos

C18_Witness ==
    /\ Len(photos) = 3
    /\ Len(ornaments) = ORNAMENT_COUNT
    /\ ornaments[3] = 2
    /\ ornaments[4] = 0

(* C19: every hand frame, whatever the pose and whether or not a focus
   request or a swipe is held back, requests the rotation
   ((x - 0.5) * 2) * 0.05 and moves the camera by the zoom signal
   (y - 0.5) * 2, x and y being those of landmark 9; for x, y in 0 .. 1 the
   two lie in -0.05 .. 0.05 and -1 .. 1; the next render commits the
   rotation *)
C19_ContinuousSignals ==
    /\ [][\A lm \in SignalLandmarks :
            (tracker = "ready" /\ lastHandX' = lm[9].x /\ UseFrame(lm))
                => LET rot  == 10 * lm[9].x - 5000
                       zoom == 2 * lm[9].y - 1000
                   IN  /\ pendRot' = << rot >>
                       /\ cameraZ' = cameraZ + ((18000 + 10 * zoom - cameraZ) * 5) \div 100
                       /\ rot \in -5000 .. 5000
                       /\ zoom \in -1000 .. 1000]_vars
    /\ [][(pendRot # << >> /\ Render) => rotation' = pendRot[1]]_vars

C19_Witness ==
    /\ rotation = 5000
    /\ pendRot = << -5000 >>
    /\ cameraZ > 18000
    /\ lastVictoryTime = now
    /\ lastSwipeTime = now
    /\ swipes = << >>
    /\ frame >= 3

(* C20: a frame requests focus if and only if it shows the victory pose and
   more than 800 ms have passed since the last request; the time of the last
   request is written by a request and by nothing else (no other frame, no
   frame without a hand, no render, no passing of time), so two requests are
   always more than 800 ms apart *)
C20_FocusRequestDebounced ==
    /\ [][\A lm \in Landmarks :
            (tracker = "ready" /\ lastHandX' = lm[9].x /\ UseFrame(lm)
                /\ SpecVictory(lm) /\ now - lastVictoryTime > 800)
               => (lastVictoryTime' = now /\ pendFocus' = << TRUE >>)]_vars
    /\ [][lastVictoryTime' # lastVictoryTime
            => /\ \E lm \in Landmarks : SpecVictory(lm) /\ UseFrame(lm)
               /\ tracker = "ready"
               /\ lastVictoryTime' = now
               /\ pendFocus' = << TRUE >>
               /\ lastVictoryTime' - lastVictoryTime > 800]_vars
    /\ [][lastVictoryTime' = lastVictoryTime
            => (pendFocus' = << TRUE >> => pendFocus = << TRUE >>)]_vars

C20_Witness ==
    /\ tracker = "ready"
    /\ focusMode
    /\ pendFocus = << >>
    /\ lastVictoryTime = T0
    /\ now = T0 + 800
    /\ lastHandX # NoX

(* C21: whenever a swipe is evaluated (victory pose, a remembered hand x),
   the remembered x is that of the immediately preceding detection, also when
   the hand was away for some frames before *)
C21_SwipeAgainstPrecedingFrame ==
    [][\A lm \in Landmarks :
          (tracker = "ready" /\ lastHandX # NoX /\ SpecVictory(lm) /\ UseFrame(lm))
             => lastHandX = prevFrameX]_vars

(* What the code keeps: the remembered x is that of the latest detection that
   showed a hand *)
C21_BaselineIsLastSeenHand == prevFrameX # NoX => lastHandX = prevFrameX

(* A swipe emitted by the first frame after the hand was away *)
C21_SwipeAfterAbsence ==
    [][(prevFrameX = NoX /\ TrackedHandFrame) => swipes' = << >>]_vars

(* C22: a swipe leaves the phase of the slideshow timer alone.  The timer is
   due 4 s after focus opens; while focus stays true and the list keeps its
   length, no step (a swipe frame, the render that applies the swipe, any
   other) moves the due time, except the timer itself, which fires exactly
   when due and is then due 4 s later; so the k-th advance comes 4 s * k
   after focus opened *)
C22_SwipeKeepsTimerPhase ==
    [][/\ (~focusMode /\ focusMode' /\ Len(photos') > 0)
             => interval' = [on |-> TRUE, due |-> now + 4000, len |-> Len(photos')]
       /\ (focusMode /\ focusMode' /\ Len(photos') = Len(photos) /\ Len(photos) > 0)
             => \/ interval' = interval
                \/ /\ TimerFire
                   /\ now = interval.due
                   /\ interval' = [interval EXCEPT !.due = interval.due + 4000]]_vars

C22_Witness ==
    /\ focusMode
    /\ Len(photos) = 3
    /\ slideshowIndex = 1
    /\ lastSwipeTime = T0 + 2000
    /\ now = T0 + 4000
    /\ slideSince = now
    /\ interval.due = now + 4000
    /\ pendIdx = << Updater("right", 3) >>

(* C23: in every frame all six groups blend toward the target that one and
   the same mode value selects, the committed treeState: the group's formed
   target when it is FORMED and its scattered target otherwise; no group's
   step is that of the other mode *)
C23_OneModePerFrame ==
    [][Animate
         => \E c \in Clocks : \A g \in Groups : \A i \in DOMAIN current[g] :
               /\ current'[g][i]
                     = LerpPos(current[g][i], TargetUnder(treeState, g, i, c), Alpha(g))
               /\ \A m \in {"FORMED", "CHAOS"} \ {treeState} :
                     TargetUnder(m, g, i, c) # TargetUnder(treeState, g, i, c)]_vars

C23_Witness ==
    /\ frame >= 2
    /\ treeState = "CHAOS"
    /\ prevMode = "CHAOS"
    /\ \A g \in AtmosphereGroups : current[g] # formed[g]
    /\ current["trunk"] # GenerateCurrent(1)["trunk"]
    /\ formed = GenerateFormed(1)

(* All particles of the groups G are within the tolerance of the stored
   target of the committed mode, the amplitude of the group's noise added *)
Settled(G) ==
    \A g \in G : \A i \in DOMAIN current[g] : \A a \in Axes :
        Abs(current[g][i][a] - StoredTarget(g, i)[a]) <= Tolerance + NoiseBound(g, a)

(* C24: with the mode held constant every particle of every group comes
   within the tolerance of its target after finitely many frames and stays
   there *)
C24_ConvergesToTarget == <>[]Settled(Groups)

(* The same for every group but the dust, which the code keeps *)
C24_ConvergesExceptDust == <>[]Settled(Groups \ {"dust"})

(* The dust does converge while the mode is CHAOS *)
C24_DustConvergesInChaos == <>[](treeState = "CHAOS" => Settled({"dust"}))

(* After a frame the stored position of every particle of the groups G is
   the lerp of its previous position toward the stored target, nothing of
   the frame's clock in it *)
StoredIsPlainLerp(G) ==
    \A g \in G : \A i \in DOMAIN current[g] :
        current'[g][i] = LerpPos(current[g][i], StoredTarget(g, i), Alpha(g))

(* C25: the hover of the ornaments and the spin and bob of the dust are not
   written into the stored buffers: after every frame the stored position of
   a dust particle, gift, ball or light is lerp(previous, target, alpha) *)
C25_TransformsNotStored ==
    [][Animate => StoredIsPlainLerp({"dust"} \cup AtmosphereGroups)]_vars

(* The part the code keeps: gifts, balls and lights; and the dust in CHAOS *)
C25_HoverNotStored ==
    [][Animate => /\ StoredIsPlainLerp(AtmosphereGroups)
                  /\ treeState = "CHAOS" => StoredIsPlainLerp({"dust"})]_vars

(* the sinusoidal term a frame at clock c adds to the target of group g *)
NoiseAt(m, g, c) == IF g = "needles" /\ m = "CHAOS" THEN c.wave * NEEDLE_NOISE ELSE 0

(* a position moved by n on every axis *)
Jittered(p, n) == Pos(p.x + n, p.y + n, p.z + n)

(* C26 as stated: in a frame while FORMED every group but the needles is
   blended toward its formed target with no noise, and the needles toward
   their formed target plus the sinusoidal jitter of the frame's clock *)
C26_NeedlesJitterWhenFormed ==
    [][\A c \in Clocks :
          (treeState = "FORMED" /\ AnimationFrame(c))
             => \A g \in Groups : \A i \in DOMAIN current[g] :
                   current'[g][i] =
                      LerpPos(current[g][i],
                              Jittered(formed[g][i],
                                       IF g = "needles" THEN c.wave * NEEDLE_NOISE ELSE 0),
                              Alpha(g))]_vars

(* the needles' half of it alone *)
C26_NeedlesHalf ==
    [][\A c \in Clocks :
          (treeState = "FORMED" /\ AnimationFrame(c))
             => \A i \in DOMAIN current["needles"] :
                   current'["needles"][i] =
                      LerpPos(current["needles"][i],
                              Jittered(formed["needles"][i], c.wave * NEEDLE_NOISE),
                              Alpha("needles"))]_vars

(* C26 amended: in a frame while FORMED the needles, the trunk, the gifts,
   the balls and the lights are blended toward their formed target with no
   noise; the needles have the sinusoidal jitter while CHAOS; the dust's
   target while FORMED is its formed point spun and bobbed *)
C26_NoiseOnlyWhenScattered ==
    [][\A c \in Clocks :
          AnimationFrame(c)
             => \A g \in Groups : \A i \in DOMAIN current[g] :
                   current'[g][i] =
                      LerpPos(current[g][i],
                              IF g = "dust" /\ treeState = "FORMED"
                              THEN LET f == formed[g][i]
                                   IN  Pos(f.x * Cos4(c.quarter) - f.z * Sin4(c.quarter),
                                           f.y + c.wave * DUST_BOB,
                                           f.x * Sin4(c.quarter) + f.z * Cos4(c.quarter))
                              ELSE Jittered(StoredTarget(g, i), NoiseAt(treeState, g, c)),
                              Alpha(g))]_vars

C26_Witness ==
    /\ frame = 1
    /\ treeState = "FORMED"
    /\ prevMode = "FORMED"
    /\ \E seed \in Seeds :
          /\ formed = GenerateFormed(seed)
          /\ current["needles"] # GenerateCurrent(seed)["needles"]

(* the classifier ran on a detected hand in this step *)
ClassifierStep ==
    \E lm \in Landmarks :
        /\ tracker = "ready"
        /\ lastHandX' = lm[9].x
        /\ pendTree' = << TreeStateOf(lm) >>
        /\ UseFrame(lm)

(* C27: a frame of the particle animation changes only the position buffers
   (and the frame's own bookkeeping): the mode, the focus, the selected index,
   the rotation signal, the photos, the classifier memory and every queued
   update stay as they are; the mode changes only by the render of a treeState
   event that a classified hand frame queued; lastHandX, lastSwipeTime and
   lastVictoryTime change only in a classified hand frame *)
C27_SingleWriter ==
    [][/\ Animate => UNCHANGED << committedVars, classifierVars, pendingVars, swipes,
                                  cameraZ, interval, targetVars >>
       /\ treeState' # treeState => pendTree = << treeState' >> /\ pendTree' = << >>
       /\ (pendTree' # pendTree /\ pendTree' # << >>) => ClassifierStep
       /\ classifierVars' # classifierVars => ClassifierStep]_vars

C27_Witness ==
    /\ frame >= 1
    /\ prevMode = "CHAOS"
    /\ treeState = "CHAOS"
    /\ lastSwipeTime > 0
    /\ lastVictoryTime > 0
    /\ pendRot # << >>

(* C28: a frame that requests focus or emits a swipe shows exactly two
   extended fingers and queues Mode = CHAOS in the same frame; a frame that
   queues Mode = FORMED requests no focus and emits no swipe *)
C28_GestureFramesAreScattered ==
    [][\A lm \in Landmarks :
          (tracker = "ready" /\ lastHandX' = lm[9].x /\ UseFrame(lm))
             => /\ (lastVictoryTime' # lastVictoryTime \/ swipes' # << >>)
                      => /\ Cardinality(C3_Extended(lm)) = 2
                         /\ pendTree' = << "CHAOS" >>
                /\ pendTree' = << "FORMED" >>
                      => /\ lastVictoryTime' = lastVictoryTime
                         /\ pendFocus' = pendFocus
                         /\ swipes' = << >>
                         /\ pendIdx' = pendIdx
                         /\ lastSwipeTime' = lastSwipeTime]_vars

C28_Witness ==
    /\ treeState = "FORMED"
    /\ pendTree = << "CHAOS" >>
    /\ pendFocus = << TRUE >>
    /\ lastVictoryTime = now
    /\ lastSwipeTime = now
    /\ swipes # << >>

(* C29: focus goes from true to false only in a render that applies a queued
   setFocusMode(false), and that is queued only by the close of the overlay
   or by the effect of the render that changes the mode to FORMED; so no
   frame with or without a hand, no timer advance, no swipe, no upload and no
   passing of time ends the focus or queues its end *)
C29_FocusEndsByFormedOrClose ==
    [][/\ (focusMode /\ ~focusMode') => (pendFocus = << FALSE >> /\ Render)
       /\ (pendFocus' = << FALSE >> /\ pendFocus # << FALSE >>)
             => \/ CloseOverlay
                \/ treeState # "FORMED" /\ treeState' = "FORMED" /\ Render]_vars

C29_Witness ==
    /\ focusMode
    /\ treeState = "CHAOS"
    /\ Len(photos) = 2
    /\ lastSwipeTime > 0
    /\ lastSwipeTime = lastVictoryTime
    /\ slideSince > lastSwipeTime
    /\ slideshowIndex = 0
    /\ swipes = << >>
    /\ ~HasPending

(* C30: while focus is false the interval is not armed and no index update
   is queued (swipes are ignored), and no step changes selectedIndex, the
   render that commits a new focus included: the slideshow resumes from the
   index it had *)
C30_IndexHeldWithoutFocus ==
    /\ [](~focusMode => (~interval.on /\ pendIdx = << >>))
    /\ [][~focusMode => slideshowIndex' = slideshowIndex]_vars

C30_Witness ==
    /\ ~focusMode
    /\ slideshowIndex = 1
    /\ treeState = "FORMED"
    /\ pendTree = << "CHAOS" >>
    /\ pendFocus = << TRUE >>
    /\ swipes # << >>
    /\ Len(photos) = 3

(* C31: a frame that emits a swipe while focus is false or the list is empty
   queues no index update and still records the swipe time; a hand frame no
   more than 500 ms after the recorded time emits no swipe, whatever the
   movement; and while focus is false or the list is empty no index update is
   queued, so the next render keeps selectedIndex *)
C31_IgnoredSwipeStartsCooldown ==
    /\ [][\A lm \in MainLandmarks :
            (tracker = "ready" /\ lastHandX' = lm[9].x /\ UseFrame(lm))
               => /\ (swipes' # << >> /\ (~focusMode \/ Len(photos) = 0))
                        => (pendIdx' = pendIdx /\ lastSwipeTime' = now)
                  /\ now - lastSwipeTime <= 500
                        => /\ swipes' = << >>
                           /\ pendIdx' = pendIdx
                           /\ lastSwipeTime' = lastSwipeTime]_vars
    /\ []((~focusMode \/ Len(photos) = 0) => pendIdx = << >>)

C31_Witness ==
    /\ ~focusMode
    /\ Len(photos) = 2
    /\ swipes = << "right" >>
    /\ lastSwipeTime = now
    /\ lastVictoryTime = now
    /\ pendFocus = << TRUE >>
    /\ pendIdx = << >>
    /\ slideshowIndex = 0

(* C32: every step leaves the photo list as it is or puts new photos in front
   of it, and in every state selectedIndex is 0 with an empty list and an
   index of the list otherwise *)
C32_IndexValidListGrows ==
    /\ [](IF photos = << >>
          THEN slideshowIndex = 0
          ELSE slideshowIndex \in 0 .. (Len(photos) - 1))
    /\ [][/\ Len(photos') >= Len(photos)
          /\ SubSeq(photos', Len(photos') - Len(photos) + 1, Len(photos')) = photos]_vars

C32_Witness ==
    /\ photos = << 3, 2, 1 >>
    /\ slideshowIndex = 2
    /\ focusMode
    /\ interval.len = 3
    /\ ~HasPending

(* C33: a timer advance and a swipe that are both queued before a render are
   both kept, in the order they came, and the render applies both: from index
   k with len photos it commits (k + 2) mod len for a right swipe and k for a
   left swipe *)
C33_TimerAndSwipeBothApplied ==
    [][/\ (TimerFire /\ pendIdx # << >>)
             => pendIdx' = Append(pendIdx, [dir |-> "right", len |-> Len(photos)])
       /\ \A lm \in MainLandmarks :
              (pendIdx # << >> /\ swipes' # << >> /\ lastHandX' = lm[9].x /\ UseFrame(lm))
                 => pendIdx' = Append(pendIdx, [dir |-> swipes'[1], len |-> Len(photos)])
       /\ (Len(pendIdx) = 2 /\ Render)
             => LET len == Len(photos)
                    k == slideshowIndex
                    dirs == { pendIdx[1].dir, pendIdx[2].dir }
                IN  /\ len > 0
                    /\ pendIdx[1].len = len /\ pendIdx[2].len = len
                    /\ "right" \in dirs
                    /\ slideshowIndex' = IF "left" \in dirs THEN k ELSE (k + 2) % len]_vars

C33_Witness ==
    /\ focusMode
    /\ slideshowIndex = 1
    /\ pendIdx = << [dir |-> "right", len |-> 3], [dir |-> "left", len |-> 3] >>
    /\ slideSince = now
    /\ lastSwipeTime = now

(* C34: a focus request made while focus is true changes nothing.  The frame
   that makes it leaves the committed state and the interval alone; the render
   that applies it keeps focus true, gives the mode and selectedIndex only
   what their own queues hold, and keeps the interval and its due time unless
   the list grew; with nothing else queued than the request and the frame's
   own mode and rotation, mode, focus, selectedIndex and the interval are all
   unchanged *)
C34_FocusRequestIdempotent ==
    [][/\ \A lm \in MainLandmarks :
              (focusMode /\ lastVictoryTime' # lastVictoryTime /\ UseFrame(lm))
                 => /\ pendFocus' = << TRUE >>
                    /\ UNCHANGED << committedVars, interval, slideSince >>
       /\ (focusMode /\ pendFocus = << TRUE >> /\ Render)
             => /\ focusMode'
                /\ treeState' = IF pendTree = << >> THEN treeState ELSE pendTree[1]
                /\ pendIdx = << >> => slideshowIndex' = slideshowIndex
                /\ pendPhotos = << >> => UNCHANGED << interval, slideSince >>
                /\ (pendTree = << treeState >> /\ pendIdx = << >> /\ pendPhotos = << >>)
                      => UNCHANGED << treeState, focusMode, slideshowIndex, photos,
                                      interval, slideSince >>]_vars

C34_Witness ==
    /\ focusMode
    /\ treeState = "CHAOS"
    /\ pendFocus = << TRUE >>
    /\ pendTree = << "CHAOS" >>
    /\ pendIdx = << >>
    /\ lastVictoryTime = now
    /\ Len(photos) = 2
    /\ interval.on
    /\ interval.due = now + 2000
    /\ slideshowIndex = 1

=============================================================================
